---- MODULE Spec2Model ----
(***************************************************************************)
(* Market Research Assistant (streamlit_app.py): the session pipeline      *)
(* driver, the length convergence step, the reranker and the local text    *)
(* checks, as a state machine.                                             *)
(*                                                                         *)
(* Text is a sequence of characters, each character a one-character        *)
(* string.  An optional value (Python None or a value) is a sequence of    *)
(* length 0 or 1.                                                          *)
(***************************************************************************)
EXTENDS Integers, Sequences, FiniteSets, TLC

VARIABLES
    \* st.session_state
    confirmed_industry,     \* None or Some(text)
    grammar_checked_input,  \* None or Some(text)
    selected_suggestion,    \* None or Some(text)
    last_input,             \* text
    cached_report,          \* None or Some(report record)
    cached_industry,        \* None or Some(text)
    has_validation_result,  \* 'validation_result' in st.session_state
    validation_result,      \* None or Some(validation record)
    last_validated_input,   \* None or Some(text)
    \* one script run
    pc,                     \* position of the script run
    run,                    \* the run's locals and what it has done so far
    \* application of one helper function on its own
    fn_arg,
    fn_ret

session == <<confirmed_industry, grammar_checked_input, selected_suggestion,
             last_input, cached_report, cached_industry,
             has_validation_result, validation_result, last_validated_input>>
pure == <<fn_arg, fn_ret>>
vars == <<session, pc, run, pure>>

None == <<>>
Some(x) == <<x>>
Val(o) == o[1]

Range(s) == {s[i] : i \in 1..Len(s)}

(***************************************************************************)
(* Characters and their Python classes                                     *)
(***************************************************************************)
AlphaChars == {"a", "i"}           \* c.isalpha()
DigitChars == {"5"}                \* c.isalnum() and not c.isalpha()
SpaceChars == {" "}                \* c.isspace()
PunctChars == {"-"}                \* c in '-&,.'
OtherChars == {"@"}                \* none of the above
InputChars == AlphaChars \cup DigitChars \cup SpaceChars \cup PunctChars \cup OtherChars

isalpha(c) == c \in AlphaChars
isalnum(c) == c \in AlphaChars \cup DigitChars
isspace(c) == c \in SpaceChars

RECURSIVE lstrip(_)
lstrip(s) == IF s # <<>> /\ isspace(Head(s)) THEN lstrip(Tail(s)) ELSE s

RECURSIVE rstrip(_)
rstrip(s) ==
    IF s # <<>> /\ isspace(s[Len(s)]) THEN rstrip(SubSeq(s, 1, Len(s) - 1)) ELSE s

\* str.strip()
strip(s) == rstrip(lstrip(s))

SeqsUpTo(S, n) == UNION {[1..k -> S] : k \in 0..n}

\* sum(1 for c in text if P(c))
RECURSIVE CountIf(_, _)
CountIf(P(_), s) ==
    IF s = <<>> THEN 0 ELSE (IF P(Head(s)) THEN 1 ELSE 0) + CountIf(P, Tail(s))

IsValidChar(c) == isalnum(c) \/ isspace(c) \/ c \in {"-", "&", ",", "."}

\* valid_chars / len(text) < 0.5, for 0 <= valid_chars <= len(text), len(text) > 0
RatioAtMostHalf(valid_chars, length) == 2 * valid_chars <= length

RatioBelowHalf(valid_chars, length) == 2 * valid_chars < length

is_meaningful_text(text0) ==
    LET text == strip(text0)
        alpha_count == CountIf(isalpha, text)
        valid_chars == CountIf(IsValidChar, text)
    IN  IF Len(text) = 0 THEN FALSE
        ELSE IF Len(text) < 2 THEN FALSE
        ELSE IF alpha_count < 2 THEN FALSE
        ELSE IF RatioBelowHalf(valid_chars, Len(text)) THEN FALSE
        ELSE TRUE

(***************************************************************************)
(* rerank_results                                                          *)
(*                                                                         *)
(* A document is [title, page]; page stands for the page content and the   *)
(* source URL.  The reranker's reply is one of                             *)
(*   [kind |-> "raise"]        llm.invoke raised                           *)
(*   [kind |-> "unparseable"]  json.loads raised                           *)
(*   [kind |-> "list", titles] json.loads gave a list of titles            *)
(***************************************************************************)
RerankMinDocs == 6
RerankTopN == 5

LastMatch(results, selected_title) ==
    LET hits == {i \in 1..Len(results) : results[i].title = selected_title}
    IN  IF hits = {} THEN <<>>
        ELSE <<results[CHOOSE i \in hits : \A j \in hits : i >= j]>>

\* for doc in results: if doc.metadata.get("title") == selected_title: ... break
FirstMatch(results, selected_title) ==
    LET hits == {i \in 1..Len(results) : results[i].title = selected_title}
    IN  IF hits = {} THEN <<>>
        ELSE <<results[CHOOSE i \in hits : \A j \in hits : i <= j]>>

RECURSIVE MatchAllReversed(_, _)
MatchAllReversed(results, selected_titles) ==
    IF selected_titles = <<>> THEN <<>>
    ELSE MatchAllReversed(results, Tail(selected_titles))
         \o FirstMatch(results, Head(selected_titles))

\* for selected_title in selected_titles: ... reranked_results.append(doc)
RECURSIVE MatchAll(_, _)
MatchAll(results, selected_titles) ==
    IF selected_titles = <<>> THEN <<>>
    ELSE FirstMatch(results, Head(selected_titles))
         \o MatchAll(results, Tail(selected_titles))

\* s[:n]
Take(s, n) == SubSeq(s, 1, IF Len(s) < n THEN Len(s) ELSE n)

TooFewToRerankOffByOne(results) == Len(results) < RerankMinDocs - 1

\* len(results) < 6
TooFewToRerank(results) == Len(results) < RerankMinDocs

rerank_results_unranked_on_failure(results, resp) ==
    IF TooFewToRerank(results)
    THEN [halted |-> FALSE, results |-> results, llm_calls |-> 0]
    ELSE IF resp.kind # "list"
    THEN [halted |-> FALSE, results |-> Take(results, RerankTopN), llm_calls |-> 1]
    ELSE [halted |-> FALSE,
          results |-> Take(MatchAll(results, resp.titles), RerankTopN),
          llm_calls |-> 1]

\* The outcome of rerank_results(industry, results) when the LLM answers resp:
\* halted (st.stop()), the returned documents, and the LLM calls made.
rerank_results(results, resp) ==
    IF TooFewToRerank(results)
    THEN [halted |-> FALSE, results |-> results, llm_calls |-> 0]
    ELSE IF resp.kind # "list"
    THEN [halted |-> TRUE, results |-> <<>>, llm_calls |-> 1]
    ELSE [halted |-> FALSE,
          results |-> Take(MatchAll(results, resp.titles), RerankTopN),
          llm_calls |-> 1]

(***************************************************************************)
(* Report text                                                             *)
(*                                                                         *)
(* A report is a sequence of characters and of these atoms:                *)
(*   "W"     the four characters matched by [Ww]ord                        *)
(*   "C"     the five characters matched by [Cc]ount                       *)
(*   "<B>"   the placeholder that protects an opening bold marker          *)
(*   "</B>"  the placeholder that protects a closing bold marker           *)
(*   "x399", "x400", ...  a run of that many one-letter words "x", each    *)
(*           separated from the next by one space: it starts and ends      *)
(*           with a letter and holds no marker, digit or newline           *)
(***************************************************************************)
NL == "\n"
IsWs(c) == c \in {" ", NL}
IsDigitChar(c) == c \in DigitChars

RunWords == [x399 |-> 399, x400 |-> 400, x401 |-> 401, x497 |-> 497,
             x499 |-> 499, x500 |-> 500, x501 |-> 501]

\* the words an element that is not whitespace adds beyond the first
ExtraWords(c) == IF c \in DOMAIN RunWords THEN RunWords[c] - 1 ELSE 0

At(s, i, c) == i <= Len(s) /\ s[i] = c

\* the first position from i on that does not satisfy P (Len(s) + 1 if none)
SkipWhile(P(_), s, i) ==
    CHOOSE j \in i..(Len(s) + 1) :
        /\ \A k \in i..(j - 1) : P(s[k])
        /\ (j <= Len(s) => ~P(s[j]))

\* The match of
\*   \(?\s*[Ww]ord\s+[Cc]ount\s*:?\s*\d+\s*[Ww]ords?\s*\)?
\* that starts at i: the position after it, or 0 when there is none.  Every
\* quantifier of the pattern is followed by a character it cannot match, so
\* the greedy match is the only one.  Each operator takes the position
\* reached so far.
AfterOptional(s, i, c) == IF At(s, i, c) THEN i + 1 ELSE i

\* \s*\)?  at the end of the pattern
MatchTail(s, k) == AfterOptional(s, SkipWhile(IsWs, s, k), ")")

\* [Ww]ords?  at h
MatchWords(s, h) ==
    IF ~At(s, h, "W") THEN 0 ELSE MatchTail(s, AfterOptional(s, h + 1, "s"))

\* \d+\s*  from f on: g is the position after the digits
MatchDigits(s, f, g) ==
    IF g = f THEN 0 ELSE MatchWords(s, SkipWhile(IsWs, s, g))

\* :?\s*  at d
MatchColon(s, d) == SkipWhile(IsWs, s, AfterOptional(s, d, ":"))

\* \d+ and what follows it, at f
MatchNumber(s, f) == MatchDigits(s, f, SkipWhile(IsDigitChar, s, f))

\* \s+[Cc]ount  after [Ww]ord, which ends before b1; c is the position after
\* the whitespace
MatchCount(s, b1, c) ==
    IF c = b1 \/ ~At(s, c, "C") THEN 0
    ELSE MatchNumber(s, MatchColon(s, SkipWhile(IsWs, s, c + 1)))

\* [Ww]ord  at b
MatchWord(s, b) ==
    IF ~At(s, b, "W") THEN 0 ELSE MatchCount(s, b + 1, SkipWhile(IsWs, s, b + 1))

WordCountMatchEnd(s, i) ==
    IF i > Len(s) THEN 0
    ELSE MatchWord(s, SkipWhile(IsWs, s, AfterOptional(s, i, "(")))

\* the rest of re.sub from position i on, e being the end of the match at i
SubWordCountFrom(s, i, e) ==
    IF e > 0 THEN e ELSE i + 1

\* re.sub(<the pattern above>, '', text), from position i on
RECURSIVE SubWordCount(_, _)
SubWordCount(s, i) ==
    IF i > Len(s) THEN <<>>
    ELSE (IF WordCountMatchEnd(s, i) > 0 THEN <<>> ELSE <<s[i]>>)
         \o SubWordCount(s, SubWordCountFrom(s, i, WordCountMatchEnd(s, i)))

\* text.split('\n'): the lines, at least one
RECURSIVE SplitLines(_)
SplitLines(s) ==
    LET j == SkipWhile(LAMBDA c : c # NL, s, 1)
    IN  IF j > Len(s) THEN <<s>>
        ELSE <<SubSeq(s, 1, j - 1)>> \o SplitLines(SubSeq(s, j + 1, Len(s)))

\* '\n'.join(lines)
RECURSIVE JoinLines(_)
JoinLines(lines) ==
    IF lines = <<>> THEN <<>>
    ELSE IF Len(lines) = 1 THEN lines[1]
    ELSE lines[1] \o <<NL>> \o JoinLines(Tail(lines))

\* re.search(r'^\s*\(?\s*[Ww]ord\s+[Cc]ount', line)
IsWordCountLine(line) ==
    LET a == SkipWhile(IsWs, line, 1)
        b == IF At(line, a, "(") THEN a + 1 ELSE a
        c == SkipWhile(IsWs, line, b)
        d == SkipWhile(IsWs, line, c + 1)
    IN  At(line, c, "W") /\ d > c + 1 /\ At(line, d, "C")

RECURSIVE SelectLines(_, _)
SelectLines(P(_), lines) ==
    IF lines = <<>> THEN <<>>
    ELSE (IF P(Head(lines)) THEN <<Head(lines)>> ELSE <<>>)
         \o SelectLines(P, Tail(lines))

RECURSIVE StripWs(_)
StripWs(s) ==
    IF s # <<>> /\ IsWs(Head(s)) THEN StripWs(Tail(s))
    ELSE IF s # <<>> /\ IsWs(s[Len(s)]) THEN StripWs(SubSeq(s, 1, Len(s) - 1))
    ELSE s

clean_report_text(text0) ==
    LET text == SubWordCount(text0, 1)
        lines == SplitLines(text)
        cleaned_lines == SelectLines(LAMBDA line : ~IsWordCountLine(line), lines)
    IN  StripWs(JoinLines(cleaned_lines))

(***************************************************************************)
(* sanitize_markdown                                                       *)
(***************************************************************************)
\* the backtick character, written as an apostrophe
Backtick == "'"

\* line.strip().startswith('#')
IsHeadingLine(line) == LET t == StripWs(line) IN t # <<>> /\ t[1] = "#"

\* s[i:].startswith(m + m + m)
TripleAt(s, i, m) == At(s, i, m) /\ At(s, i + 1, m) /\ At(s, i + 2, m)

\* s[i:].startswith(m + m)
PairAt(s, i, m) == At(s, i, m) /\ At(s, i + 1, m)

\* re.sub(r'```[\s\S]*?```', '', line), from position i on
RECURSIVE SubCodeBlocks(_, _)
SubCodeBlocks(s, i) ==
    IF i > Len(s) THEN <<>>
    ELSE LET closes == {j \in (i + 3)..Len(s) : TripleAt(s, j, Backtick)}
         IN  IF TripleAt(s, i, Backtick) /\ closes # {}
             THEN SubCodeBlocks(s, (CHOOSE j \in closes : \A k \in closes : j <= k) + 3)
             ELSE <<s[i]>> \o SubCodeBlocks(s, i + 1)

\* line.replace(c, '') for every c of chars
Without(s, chars) == SelectSeq(s, LAMBDA c : c \notin chars)

\* line.count(m)
CountChar(s, m) == Cardinality({i \in 1..Len(s) : s[i] = m})

\* line.count(m + m): occurrences that do not overlap, from position i on
RECURSIVE CountPairs(_, _, _)
CountPairs(s, m, i) ==
    IF i >= Len(s) THEN 0
    ELSE IF PairAt(s, i, m) THEN 1 + CountPairs(s, m, i + 2)
    ELSE CountPairs(s, m, i + 1)

\* line.count(m) - line.count(m + m) * 2
UnpairedCount(s, m) == CountChar(s, m) - CountPairs(s, m, 1) * 2

\* re.sub(m m (.+?) m m, <B> \1 </B>, line), from position i on
RECURSIVE ProtectBold(_, _, _)
ProtectBold(s, m, i) ==
    IF i > Len(s) THEN <<>>
    ELSE LET closes == {j \in (i + 3)..Len(s) : PairAt(s, j, m)}
             j == CHOOSE c \in closes : \A k \in closes : c <= k
         IN  IF PairAt(s, i, m) /\ closes # {}
             THEN <<"<B>">> \o SubSeq(s, i + 2, j - 1) \o <<"</B>">>
                  \o ProtectBold(s, m, j + 2)
             ELSE <<s[i]>> \o ProtectBold(s, m, i + 1)

\* line.replace('<B>', '**').replace('</B>', '**')
RECURSIVE RestoreBold(_)
RestoreBold(s) ==
    IF s = <<>> THEN <<>>
    ELSE (IF Head(s) \in {"<B>", "</B>"} THEN <<"*", "*">> ELSE <<Head(s)>>)
         \o RestoreBold(Tail(s))

HasUnclosedAsterisk(line) == UnpairedCount(line, "*") % 2 # 0

\* asterisk_count % 2 != 0 or underscore_count % 2 != 0
HasUnclosedMarker(line) ==
    UnpairedCount(line, "*") % 2 # 0 \/ UnpairedCount(line, "_") % 2 # 0

\* line.replace(m, '', 1) for m = '*' and m = '_': only the first of each
RECURSIVE RemoveFirst(_, _)
RemoveFirst(s, m) ==
    IF s = <<>> THEN <<>>
    ELSE IF Head(s) = m THEN Tail(s)
    ELSE <<Head(s)>> \o RemoveFirst(Tail(s), m)

RemoveFirstMarkers(s) == RemoveFirst(RemoveFirst(s, "*"), "_")

\* line.replace('*', '').replace('_', '')
RemoveMarkers(s) == Without(s, {"*", "_"})

\* the body of the loop of sanitize_markdown for one line
SanitizeLine(line0) ==
    IF IsHeadingLine(line0) THEN line0
    ELSE LET line == Without(SubCodeBlocks(line0, 1), {Backtick})
         IN  IF HasUnclosedMarker(line)
             THEN RestoreBold(RemoveMarkers(
                      ProtectBold(ProtectBold(line, "*", 1), "_", 1)))
             ELSE line

RECURSIVE MapLines(_, _)
MapLines(F(_), lines) ==
    IF lines = <<>> THEN <<>> ELSE <<F(Head(lines))>> \o MapLines(F, Tail(lines))

sanitize_markdown(text) == JoinLines(MapLines(SanitizeLine, SplitLines(text)))

RECURSIVE SumExtraWords(_)
SumExtraWords(t) ==
    IF t = <<>> THEN 0 ELSE ExtraWords(Head(t)) + SumExtraWords(Tail(t))

\* len(report_text.split())
WordCount(text) ==
    Cardinality({i \in 1..Len(text) :
                    ~IsWs(text[i]) /\ (i = 1 \/ IsWs(text[i - 1]))})
    + SumExtraWords(text)

(***************************************************************************)
(* trim_report and generate_report_with_validation                         *)
(*                                                                         *)
(* An LLM reply to a report prompt is [kind |-> "raise"] (invoke raised)   *)
(* or [kind |-> "text", text |-> t].                                       *)
(***************************************************************************)
WordLimit == 500
MinWords == 400

PrimaryModel == "Gemini 2.5-flash-lite"
BackupModel == "Gemma 3-27b-it (backup)"

\* trim_report(report_text) when report_llm answers t1 and llm answers t2
trim_report(report_text, t1, t2) ==
    IF t1.kind = "text"
    THEN [text |-> t1.text, calls |-> <<"trim">>, messages |-> {}]
    ELSE IF t2.kind = "text"
    THEN [text |-> t2.text, calls |-> <<"trim", "trim_backup">>,
          messages |-> {"backup_trim"}]
    ELSE [text |-> report_text, calls |-> <<"trim", "trim_backup">>,
          messages |-> {"backup_trim", "trim_failed"}]

SanitizeAndClean(text) == clean_report_text(sanitize_markdown(text))

\* clean_report_text, then sanitize_markdown
CleanAndSanitize(text) == sanitize_markdown(clean_report_text(text))

SynthesizeNoFallback(s1, s2) ==
    IF s1.kind = "text"
    THEN [halted |-> FALSE, report_text |-> CleanAndSanitize(s1.text),
          model_used |-> PrimaryModel, calls |-> <<"synth">>,
          messages |-> {}]
    ELSE [halted |-> TRUE, report_text |-> <<>>,
          model_used |-> PrimaryModel, calls |-> <<"synth">>,
          messages |-> {"synth_failed"}]

\* the try/except of generate_report_with_validation: report_llm answers s1,
\* llm (the backup) answers s2
Synthesize(s1, s2) ==
    IF s1.kind = "text"
    THEN [halted |-> FALSE, report_text |-> CleanAndSanitize(s1.text),
          model_used |-> PrimaryModel, calls |-> <<"synth">>,
          messages |-> {}]
    ELSE IF s2.kind = "text"
    THEN [halted |-> FALSE, report_text |-> CleanAndSanitize(s2.text),
          model_used |-> BackupModel, calls |-> <<"synth", "synth_backup">>,
          messages |-> {"backup_synth"}]
    ELSE [halted |-> TRUE, report_text |-> <<>>,
          model_used |-> BackupModel, calls |-> <<"synth", "synth_backup">>,
          messages |-> {"backup_synth", "synth_failed"}]

AcceptedBelowLimit(word_count) == word_count < WordLimit

\* if word_count <= 500: return report_text, word_count, "success", model_used
Accepted(word_count) == word_count <= WordLimit

\* What generate_report_with_validation returns, with the calls it made and
\* the messages it showed.  synth_word_count is the local word_count counted
\* before the length check.
ReportResult(syn, text, word_count, synth_word_count, status, calls, messages) ==
    [halted |-> FALSE, report_text |-> text, word_count |-> word_count,
     synth_word_count |-> synth_word_count, status |-> status,
     model_used |-> syn.model_used, calls |-> syn.calls \o calls,
     messages |-> syn.messages \cup messages]

\* word_count = len(report_text.split()); return ..., "trimmed", model_used
TrimmedResult(syn, word_count, trimmed, report_text) ==
    ReportResult(syn, report_text, WordCount(report_text), word_count,
                 "trimmed", trimmed.calls, trimmed.messages)

\* report_text = trim_report(report_text), cleaned and sanitized
TrimTooLong(syn, word_count, trimmed) ==
    TrimmedResult(syn, word_count, trimmed, CleanAndSanitize(trimmed.text))

\* the length check on the synthesized report of word_count words
CheckLength(syn, word_count, t1, t2) ==
    IF Accepted(word_count)
    THEN ReportResult(syn, syn.report_text, word_count, word_count,
                      "success", <<>>, {})
    ELSE TrimTooLong(syn, word_count, trim_report(syn.report_text, t1, t2))

\* generate_report_with_validation after its try/except, whose outcome is syn
AfterSynthesis(syn, t1, t2) ==
    IF syn.halted
    THEN [halted |-> TRUE, report_text |-> <<>>, word_count |-> 0,
          synth_word_count |-> 0, status |-> "none",
          model_used |-> syn.model_used, calls |-> syn.calls,
          messages |-> syn.messages]
    ELSE CheckLength(syn, WordCount(syn.report_text), t1, t2)

\* generate_report_with_validation(industry, combined_text) when the report
\* prompt is answered by s1 (and s2), the trim prompt by t1 (and t2)
generate_report_with_validation(s1, s2, t1, t2) ==
    AfterSynthesis(Synthesize(s1, s2), t1, t2)

(***************************************************************************)
(* What the user types and what the collaborators answer                   *)
(***************************************************************************)
\* values of the text box
Inputs == {<<>>, <<" ">>, <<"a", "i">>, <<"i", "a">>, <<"@", "@">>}

\* a reply that is never read
NoReply == [kind |-> "unused"]

\* what makes llm.invoke raise
Causes == {"invalid_key", "quota_exceeded", "other"}

\* str(e) of the exception e that is caught: the code reads nothing else of e
ErrorTexts == {"E1", "E2"}

\* the failures of a call whose response is parsed as JSON: llm.invoke raises
\* for any cause, with any text, or json.loads raises
FailedCalls ==
    {[kind |-> "raise", cause |-> c, text |-> t] : c \in Causes, t \in ErrorTexts}
    \cup {[kind |-> "unparseable", cause |-> "other", text |-> "JSONDecodeError"]}

\* st.error(f"... Failed to <op>. Error: {str(e)}") and
\* st.warning("Please verify your API key is valid and has sufficient quota.")
ErrorShown(op, e) ==
    [error |-> op, detail |-> e.text, warning |-> "verify_key_and_quota"]

\* replies to the grammar prompt: corrected_text is None for a JSON null
GrammarReplies ==
    FailedCalls
    \cup {[kind |-> "json", has_issues |-> h, corrected_text |-> c] :
            h \in BOOLEAN, c \in {Some(<<"a", "a">>), Some(<<>>), None}}

MaxSuggestions == 2

SuggestionPool == <<<<"i", "i">>, <<"a", "a">>, <<"i", "a">>, <<"a", "i">>>>

\* no suggestion, or the first MaxSuggestions of the pool
SuggestionLists == {<<>>, SubSeq(SuggestionPool, 1, MaxSuggestions)}

\* what validate_industry returns
ValidationValues ==
    {[is_valid |-> TRUE, suggestions |-> <<>>]}
    \cup {[is_valid |-> FALSE, suggestions |-> l] : l \in SuggestionLists}

ValidationReplies ==
    FailedCalls
    \cup {[kind |-> "json", value |-> v] : v \in ValidationValues}

Doc(t, p) == [title |-> t, page |-> p]

\* what the retriever returns: documents, or it raises
RetrieverReplies ==
    {[kind |-> "raise"],
     [kind |-> "docs", docs |-> <<Doc("A", 1), Doc("B", 2)>>],
     [kind |-> "docs", docs |-> <<Doc("A", 1), Doc("B", 2), Doc("A", 3),
                                  Doc("B", 4), Doc("A", 5), Doc("B", 6)>>]}

RerankReplies ==
    FailedCalls \cup
    {[kind |-> "list", titles |-> <<"B", "A", "Z", "B", "B", "A">>]}

WordCountLine == <<"(", "W", " ", "C", ":", " ", "5", " ", "W", "s", ")">>

\* a word count inside a word count, "(Word (Word Count: 5 words)Count: 5
\* words)": what is left when the inner one is taken out is a word count
NestedWordCount ==
    <<"(", "W", " ">> \o WordCountLine \o SubSeq(WordCountLine, 4, Len(WordCountLine))

\* 399, 400, 500 and 501 words; 504 words of which one is a lone backtick
\* and 4 are a word count line; 497 words followed by a nested word count
SynthTexts ==
    {<<"x399">>, <<"x400">>, <<"x500">>, <<"x501">>,
     <<"x499", " ", Backtick, NL>> \o WordCountLine,
     <<"x497", " ">> \o NestedWordCount}

\* 400 words and a word count line; 501 words; 399 words
TrimTexts == {<<"x400", NL>> \o WordCountLine, <<"x501">>, <<"x399">>}

SynthReplies == {[kind |-> "raise"]} \cup {[kind |-> "text", text |-> t] : t \in SynthTexts}

TrimReplies == {[kind |-> "raise"]} \cup {[kind |-> "text", text |-> t] : t \in TrimTexts}

\* the replies of report_llm to the trim prompt that are read after the
\* synthesis syn: none if the report is not trimmed
TrimRepliesRead(syn) ==
    IF syn.halted \/ Accepted(WordCount(syn.report_text))
    THEN {NoReply} ELSE TrimReplies

(***************************************************************************)
(* The script run                                                          *)
(***************************************************************************)
\* industry_input.strip() == ""
Blank(text) == strip(text) = <<>>

\* if st.session_state.confirmed_industry:
Truthy(o) == o # None /\ Val(o) # <<>>

OnlyBlankRejected(industry_input) == Blank(industry_input)

\* the two branches that end with confirmed_industry = None
InputRejected(industry_input) ==
    Blank(industry_input) \/ ~is_meaningful_text(industry_input)

SearchNeverClears(regenerate, industry_input) == FALSE

\* if regenerate and industry_input.strip():
SearchClearsCache(regenerate, industry_input) ==
    regenerate /\ strip(industry_input) # <<>>

AlwaysValidate(has_result, last_validated, corrected_input) == TRUE

ValidateOnce(has_result, last_validated, corrected_input) == ~has_result

\* 'validation_result' not in st.session_state
\*     or st.session_state.get('last_validated_input') != corrected_input
NeedsValidation(has_result, last_validated, corrected_input) ==
    ~has_result \/ last_validated # corrected_input

CacheHitInverted(cached_ind, cached_rep, industry) ==
    cached_ind = industry /\ cached_rep = None

\* st.session_state.cached_industry == industry
\*     and st.session_state.cached_report is not None
CacheHit(cached_ind, cached_rep, industry) ==
    cached_ind = industry /\ cached_rep # None

NewRun ==
    [industry_input |-> <<>>, regenerate |-> FALSE, click |-> "none",
     radio |-> 1, input_changed |-> FALSE,
     cached_at_start |-> FALSE,
     calls |-> <<>>, messages |-> {}, validation |-> None,
     results |-> <<>>, generated |-> None, shown |-> None,
     failure |-> None, buttons |-> FALSE, outcome |-> "none"]

\* the session state after its initialisation, before the first run
InitSession ==
    /\ confirmed_industry = None
    /\ grammar_checked_input = None
    /\ selected_suggestion = None
    /\ last_input = <<>>
    /\ cached_report = None
    /\ cached_industry = None
    /\ has_validation_result = FALSE
    /\ validation_result = None
    /\ last_validated_input = None
    /\ run = NewRun

Init ==
    /\ InitSession
    /\ pc = "idle"
    /\ fn_arg = None
    /\ fn_ret = None

validation == <<has_validation_result, validation_result, last_validated_input>>
cache == <<cached_report, cached_industry>>

FirstStepRevalidates(rejected, confirmed, checked) ==
    IF rejected THEN "guard"
    ELSE IF checked = None THEN "grammar"
    ELSE "validate"

FirstStepSkipsGrammar(rejected, confirmed, checked) ==
    IF rejected \/ confirmed # None THEN "guard" ELSE "validate"

\* the first step after the input checks: nothing if the input was rejected
\* or an industry is confirmed (if confirmed_industry is None: at 531),
\* STEP 1A if grammar_checked_input is None, else STEP 1B
FirstStep(rejected, confirmed, checked) ==
    IF rejected \/ confirmed # None THEN "guard"
    ELSE IF checked = None THEN "grammar"
    ELSE "validate"

ClearsCacheOnSearchOnly(changed, regenerate, industry_input) ==
    SearchClearsCache(regenerate, industry_input)

\* the two places that set cached_report and cached_industry to None: the
\* reset on a changed input and the clear on Search
ClearsCache(changed, regenerate, industry_input) ==
    changed \/ SearchClearsCache(regenerate, industry_input)

\* The top of the script up to the first call: the widgets, the reset on a
\* changed input, the cache clear on Search, the two input checks and the
\* tests that choose the first step.
Top(industry_input, regenerate, click, radio) ==
    LET changed == industry_input # last_input
        clear == ClearsCache(changed, regenerate, industry_input)
        rejected == InputRejected(industry_input)
        confirmed == IF changed \/ rejected THEN None ELSE confirmed_industry
        checked == IF changed \/ rejected THEN None ELSE grammar_checked_input
    IN  /\ confirmed_industry' = confirmed
        /\ grammar_checked_input' = checked
        /\ selected_suggestion' = IF changed THEN None ELSE selected_suggestion
        /\ last_input' = industry_input
        /\ cached_report' = IF clear THEN None ELSE cached_report
        /\ cached_industry' = IF clear THEN None ELSE cached_industry
        /\ run' = [NewRun EXCEPT
                     !.industry_input = industry_input,
                     !.regenerate = regenerate,
                     !.click = click,
                     !.radio = radio,
                     !.input_changed = changed,
                     !.cached_at_start =
                         /\ cached_report # None
                         /\ cached_industry = confirmed_industry,
                     !.messages = IF Blank(industry_input) THEN {"enter_industry"}
                                  ELSE IF rejected THEN {"invalid_input"}
                                  ELSE {},
                     !.outcome = "running"]
        /\ pc' = FirstStep(rejected, confirmed, checked)
        /\ UNCHANGED <<validation, pure>>

\* A widget event starts a script run.  The two suggestion buttons can be
\* clicked only if the previous run rendered them.
StartRun(industry_input, regenerate, click, radio) ==
    /\ pc = "idle"
    /\ click # "none" => run.buttons /\ ~regenerate /\ industry_input = last_input
    /\ radio # run.radio => run.buttons
    /\ Top(industry_input, regenerate, click, radio)

\* st.rerun(): the script runs again with the widgets as they are
Rerun ==
    /\ pc = "rerun"
    /\ Top(last_input, FALSE, "none", run.radio)

Finish(r, outcome) == [r EXCEPT !.outcome = outcome]

\* except Exception as e: st.error(...); st.warning(...); st.stop()
Halt(r, op, message, e) ==
    Finish([r EXCEPT !.messages = @ \cup {message},
                     !.failure = Some([exception |-> e,
                                       shown |-> ErrorShown(op, e)])],
           "stopped")

GrammarCheckedAlwaysCorrected(grammar_result, industry_input) ==
    grammar_result.corrected_text

\* if grammar_result["has_issues"]: grammar_checked_input is
\* grammar_result["corrected_text"], else: it is industry_input
GrammarChecked(grammar_result, industry_input) ==
    IF grammar_result.has_issues THEN grammar_result.corrected_text
    ELSE Some(industry_input)

\* STEP 1A: check_grammar_and_typos(industry_input) and the use of its result
CheckGrammar(reply) ==
    /\ pc = "grammar"
    /\ LET r == [run EXCEPT !.calls = @ \o <<"grammar">>]
       IN  IF reply.kind \in {"raise", "unparseable"}
           THEN /\ run' = Halt(r, "check grammar", "grammar_failed", reply)
                /\ pc' = "end"
                /\ UNCHANGED grammar_checked_input
           ELSE LET checked == GrammarChecked(reply, run.industry_input)
                IN  /\ grammar_checked_input' = checked
                    /\ run' = [r EXCEPT !.messages =
                                 IF reply.has_issues THEN @ \cup {"auto_corrected"} ELSE @]
                    /\ pc' = IF checked = None THEN "guard" ELSE "validate"
    /\ UNCHANGED <<confirmed_industry, selected_suggestion, last_input, cache,
                   validation, pure>>

\* STEP 1B: validate_industry(corrected_input), or the stored result
ValidateIndustry(reply) ==
    /\ pc = "validate"
    /\ IF NeedsValidation(has_validation_result, last_validated_input,
                          grammar_checked_input)
       THEN LET r == [run EXCEPT !.calls = @ \o <<"validate">>]
            IN  IF reply.kind \in {"raise", "unparseable"}
                THEN /\ run' = Halt(r, "validate industry", "validate_failed", reply)
                     /\ pc' = "end"
                     /\ UNCHANGED validation
                ELSE /\ has_validation_result' = TRUE
                     /\ validation_result' = Some(reply.value)
                     /\ last_validated_input' = grammar_checked_input
                     /\ run' = [r EXCEPT !.validation = Some(reply.value)]
                     /\ pc' = "decide"
       ELSE /\ run' = [run EXCEPT !.validation = validation_result]
            /\ pc' = "decide"
            /\ UNCHANGED validation
    /\ UNCHANGED <<confirmed_industry, grammar_checked_input, selected_suggestion,
                   last_input, cache, pure>>

\* st.radio(...): the option the user has selected, None without options
RadioValue(suggestions, radio) ==
    IF suggestions = <<>> THEN None
    ELSE IF radio <= Len(suggestions) THEN Some(suggestions[radio])
    ELSE Some(suggestions[1])

\* if validation_result["is_valid"]: ... else: the suggestions and the buttons
ConfirmOrSuggest ==
    /\ pc = "decide"
    /\ LET v == Val(run.validation)
           chosen == RadioValue(v.suggestions, run.radio)
       IN  IF v.is_valid
           THEN /\ confirmed_industry' = grammar_checked_input
                /\ pc' = "guard"
                /\ UNCHANGED <<run, grammar_checked_input, selected_suggestion,
                               validation>>
           ELSE /\ selected_suggestion' = chosen
                /\ IF run.click = "confirm"
                   THEN /\ confirmed_industry' = chosen
                        /\ run' = Finish([run EXCEPT !.buttons = TRUE], "rerun")
                        /\ pc' = "rerun"
                        /\ UNCHANGED <<grammar_checked_input, validation>>
                   ELSE IF run.click = "try"
                   THEN /\ confirmed_industry' = None
                        /\ grammar_checked_input' = None
                        /\ validation_result' = None
                        /\ last_validated_input' = None
                        /\ UNCHANGED has_validation_result
                        /\ run' = Finish([run EXCEPT !.buttons = TRUE], "rerun")
                        /\ pc' = "rerun"
                   ELSE /\ run' = [run EXCEPT !.buttons = TRUE,
                                              !.messages = @ \cup {"not_recognized"}]
                        /\ pc' = "guard"
                        /\ UNCHANGED <<confirmed_industry, grammar_checked_input,
                                       validation>>
    /\ UNCHANGED <<last_input, cache, pure>>

\* the word count display: success inside 400..500, a warning outside
Display(report, from_cache) ==
    [report_text |-> report.report_text, word_count |-> report.word_count,
     status |-> report.status, results |-> report.results,
     model_used |-> report.model_used, from_cache |-> from_cache,
     warning |-> ~(MinWords <= report.word_count /\ report.word_count <= WordLimit)]

\* if st.session_state.confirmed_industry: ... the cached report, or a new one
PipelineGuard ==
    /\ pc = "guard"
    /\ IF ~Truthy(confirmed_industry)
       THEN /\ run' = Finish(run, "done")
            /\ pc' = "end"
       ELSE IF CacheHit(cached_industry, cached_report, confirmed_industry)
       THEN /\ run' = Finish([run EXCEPT
                                !.shown = Some(Display(Val(cached_report), TRUE))],
                             "done")
            /\ pc' = "end"
       ELSE /\ run' = run
            /\ pc' = "retrieve"
    /\ UNCHANGED <<session, pure>>

\* Step 1: retriever.invoke(industry); an exception of the retriever is not caught
Retrieve(reply) ==
    /\ pc = "retrieve"
    /\ LET r == [run EXCEPT !.calls = @ \o <<"retrieve">>]
       IN  IF reply.kind = "raise"
           THEN /\ run' = Finish(r, "crashed")
                /\ pc' = "end"
           ELSE /\ run' = [r EXCEPT !.results = reply.docs]
                /\ pc' = "rerank"
    /\ UNCHANGED <<session, pure>>

\* Step 2: results = rerank_results(industry, results)
Rerank(reply) ==
    /\ pc = "rerank"
    /\ LET out == rerank_results(run.results, reply)
           r == [run EXCEPT !.calls =
                   IF out.llm_calls = 1 THEN @ \o <<"rerank">> ELSE @]
       IN  IF out.halted
           THEN /\ run' = Halt(r, "re-rank results", "rerank_failed", reply)
                /\ pc' = "end"
           ELSE /\ run' = [r EXCEPT !.results = out.results]
                /\ pc' = "generate"
    /\ UNCHANGED <<session, pure>>

\* st.session_state.cached_report = {...}
CachedReport(out, results) ==
    [report_text |-> out.report_text, word_count |-> out.word_count,
     status |-> out.status, results |-> results, model_used |-> out.model_used]

\* the cache write and the display of the report that was generated
StoreAndDisplay(r, out, report) ==
    /\ cached_report' = Some(report)
    /\ cached_industry' = confirmed_industry
    /\ run' = Finish([r EXCEPT
                        !.generated = Some([synth_word_count |-> out.synth_word_count,
                                            status |-> out.status,
                                            word_count |-> out.word_count]),
                        !.shown = Some(Display(report, FALSE))],
                     "done")

AfterGenerateCachesAlways(out) ==
    StoreAndDisplay([run EXCEPT !.calls = @ \o out.calls,
                                !.messages = @ \cup out.messages],
                    out, CachedReport(out, run.results))

\* what follows the return of generate_report_with_validation, out
AfterGenerate(out) ==
    LET r == [run EXCEPT !.calls = @ \o out.calls,
                         !.messages = @ \cup out.messages]
    IN  IF out.halted
        THEN /\ run' = Finish(r, "stopped")
             /\ UNCHANGED cache
        ELSE StoreAndDisplay(r, out, CachedReport(out, run.results))

\* Steps 3 and 4: generate_report_with_validation, the cache write, the display
GenerateReport(s1, s2, t1, t2) ==
    /\ pc = "generate"
    /\ AfterGenerate(generate_report_with_validation(s1, s2, t1, t2))
    /\ pc' = "end"
    /\ UNCHANGED <<confirmed_industry, grammar_checked_input, selected_suggestion,
                   last_input, validation, pure>>

\* The script run is over: the page is shown and waits for the next widget
\* event.  A widget that was not rendered loses its value.
EndRun ==
    /\ pc = "end"
    /\ pc' = "idle"
    /\ run' = [NewRun EXCEPT !.buttons = run.buttons,
                             !.radio = IF run.buttons THEN run.radio ELSE 1]
    /\ UNCHANGED <<session, pure>>

Next ==
    \/ \E i \in Inputs, g \in BOOLEAN, c \in {"none", "confirm", "try"},
          k \in 1..MaxSuggestions : StartRun(i, g, c, k)
    \/ Rerun
    \/ \E reply \in GrammarReplies : CheckGrammar(reply)
    \/ \E reply \in ValidationReplies : ValidateIndustry(reply)
    \/ ConfirmOrSuggest
    \/ PipelineGuard
    \/ \E reply \in RetrieverReplies : Retrieve(reply)
    \/ \E reply \in RerankReplies : Rerank(reply)
    \/ \E s1 \in SynthReplies :
       \E s2 \in (IF s1.kind = "raise" THEN SynthReplies ELSE {NoReply}) :
       \E t1 \in TrimRepliesRead(Synthesize(s1, s2)) :
       \E t2 \in (IF t1.kind = "raise" THEN TrimReplies ELSE {NoReply}) :
          GenerateReport(s1, s2, t1, t2)
    \/ EndRun

Spec == Init /\ [][Next]_vars

(***************************************************************************)
(* is_meaningful_text on its own: every text of at most MaxInputLen        *)
(* characters                                                              *)
(***************************************************************************)
MaxInputLen == 5

InitMeaningful ==
    /\ InitSession
    /\ pc = "call"
    /\ fn_arg \in {Some(t) : t \in SeqsUpTo(InputChars, MaxInputLen)}
    /\ fn_ret = None

ApplyMeaningful ==
    /\ pc = "call"
    /\ fn_ret' = Some(is_meaningful_text(Val(fn_arg)))
    /\ pc' = "return"
    /\ UNCHANGED <<session, run, fn_arg>>

SpecMeaningful == InitMeaningful /\ [][ApplyMeaningful]_vars

(***************************************************************************)
(* rerank_results on its own: every document set of at most MaxDocs        *)
(* documents with titles from DocTitles (the page tells documents of one   *)
(* title apart), every reply of at most MaxTitles titles                   *)
(***************************************************************************)
MaxDocs == 6
MaxTitles == 5
DocTitles == {"A", "B"}
ReplyTitles == {"A", "B", "Z"}

DocSets ==
    UNION {{[i \in 1..k |-> Doc(t[i], i)] : t \in [1..k -> DocTitles]} : k \in 0..MaxDocs}

\* replies that list more titles than MaxTitles: RepeatLen titles, twice over
RepeatLen == 3

LongTitleLists == {l \o l : l \in [1..RepeatLen -> ReplyTitles]}

AllRerankReplies ==
    {[kind |-> "raise"], [kind |-> "unparseable"]}
    \cup {[kind |-> "list", titles |-> l] :
             l \in SeqsUpTo(ReplyTitles, MaxTitles) \cup LongTitleLists}

InitRerank ==
    /\ InitSession
    /\ pc = "call"
    /\ fn_arg \in {Some(d) : d \in DocSets}
    /\ fn_ret = None

ApplyRerank(reply) ==
    /\ pc = "call"
    /\ fn_ret' = Some([reply |-> reply, out |-> rerank_results(Val(fn_arg), reply)])
    /\ pc' = "return"
    /\ UNCHANGED <<session, run, fn_arg>>

NextRerank == \E reply \in AllRerankReplies : ApplyRerank(reply)

SpecRerank == InitRerank /\ [][NextRerank]_vars

(***************************************************************************)
(* generate_report_with_validation on its own: every combination of the    *)
(* answers of the two models to the report prompt and to the trim prompt   *)
(***************************************************************************)
InitGenerate ==
    /\ InitSession
    /\ pc = "call"
    /\ fn_arg \in {Some([s1 |-> s1, s2 |-> s2, t1 |-> t1, t2 |-> t2]) :
                     s1 \in SynthReplies, s2 \in SynthReplies,
                     t1 \in TrimReplies, t2 \in TrimReplies}
    /\ fn_ret = None

ApplyGenerate ==
    /\ pc = "call"
    /\ fn_ret' = Some(generate_report_with_validation(
                          Val(fn_arg).s1, Val(fn_arg).s2,
                          Val(fn_arg).t1, Val(fn_arg).t2))
    /\ pc' = "return"
    /\ UNCHANGED <<session, run, fn_arg>>

SpecGenerate == InitGenerate /\ [][ApplyGenerate]_vars

(***************************************************************************)
(* sanitize_markdown on its own: every text of at most MaxTextLen          *)
(* characters of MarkdownChars, and every bold word with at most MaxAround *)
(* such characters on either side; the function is applied, and applied    *)
(* again to its result                                                     *)
(***************************************************************************)
MaxTextLen == 5
MaxAround == 1

MarkdownChars == {"*", "_", Backtick, "#", "x", " ", NL}

\* **x** and __x__ with something before and after
BoldTexts ==
    {a \o <<m, m, "x", m, m>> \o b :
        m \in {"*", "_"}, a \in SeqsUpTo(MarkdownChars, MaxAround),
        b \in SeqsUpTo(MarkdownChars, MaxAround)}

MarkdownTexts == SeqsUpTo(MarkdownChars, MaxTextLen) \cup BoldTexts

InitSanitize ==
    /\ InitSession
    /\ pc = "call"
    /\ fn_arg \in {Some(t) : t \in MarkdownTexts}
    /\ fn_ret = None

\* the second application of a function to the result of the first
ApplyAgain(once, twice) == [once |-> once, twice |-> twice]

ApplySanitize ==
    /\ pc = "call"
    /\ fn_ret' = Some(ApplyAgain(sanitize_markdown(Val(fn_arg)),
                                 sanitize_markdown(sanitize_markdown(Val(fn_arg)))))
    /\ pc' = "return"
    /\ UNCHANGED <<session, run, fn_arg>>

SpecSanitize == InitSanitize /\ [][ApplySanitize]_vars

(***************************************************************************)
(* clean_report_text on its own: every text of 2 to MaxLines lines of      *)
(* LinePool of which at least one is the word count line                   *)
(***************************************************************************)
MaxLines == 3

\* the line "(Word Count: 555 words)"
CountedLine ==
    <<"(", "W", " ", "C", ":", " ", "5", "5", "5", " ", "W", "s", ")">>

\* a word, a word after a space, a word before a space, an empty line, and
\* the word count line
LinePool == {<<"x">>, <<" ", "x">>, <<"x", " ">>, <<>>, CountedLine}

MultiLineTexts ==
    {l \in UNION {[1..k -> LinePool] : k \in 2..MaxLines} :
        \E i \in 1..Len(l) : l[i] = CountedLine}

InitClean ==
    /\ InitSession
    /\ pc = "call"
    /\ fn_arg \in {Some(l) : l \in MultiLineTexts}
    /\ fn_ret = None

\* clean_report_text of the text that has the lines of fn_arg
ApplyClean ==
    /\ pc = "call"
    /\ fn_ret' = Some(clean_report_text(JoinLines(Val(fn_arg))))
    /\ pc' = "return"
    /\ UNCHANGED <<session, run, fn_arg>>

SpecClean == InitClean /\ [][ApplyClean]_vars

(***************************************************************************)
(* Properties                                                              *)
(***************************************************************************)
Occurrences(s, x) == Cardinality({i \in 1..Len(s) : s[i] = x})

\* the run generated a report (it did not take it from the cache)
Generated == pc = "end" /\ run.generated # None

\* C1: a synthesized text of more than 500 words (counted after cleaning and
\* sanitizing) gets exactly one trim_report call and status "trimmed",
\* whatever the trimmed text's word count is; one of 400..500 words gets
\* status "success" and no trim call.
C1_TrimOnceOrAccept ==
    Generated =>
        LET g == Val(run.generated)
        IN  /\ g.synth_word_count > 500 =>
                /\ g.status = "trimmed"
                /\ Occurrences(run.calls, "trim") = 1
            /\ (400 <= g.synth_word_count /\ g.synth_word_count <= 500) =>
                /\ g.status = "success"
                /\ g.word_count = g.synth_word_count
                /\ Occurrences(run.calls, "trim") = 0
                /\ Occurrences(run.calls, "trim_backup") = 0

\* a text of more than 500 words was trimmed once and is still too long
C1_Witness ==
    /\ Generated
    /\ Val(run.generated).synth_word_count > 500
    /\ Val(run.generated).status = "trimmed"
    /\ Val(run.generated).word_count > 500
    /\ Occurrences(run.calls, "trim") = 1

InBand(n) == 400 <= n /\ n <= 500

\* C2: the word_count stored in cached_report lies in 400..500 unless the
\* corrective call failed on the primary and on the fallback model, and an
\* out-of-band word_count is never stored with status "success".  Stated
\* where the report is stored, in the run that generated it.
C2_CachedWordCountInBand ==
    Generated =>
        LET r == Val(cached_report)
        IN  /\ InBand(r.word_count) \/ "trim_failed" \in run.messages
            /\ r.status = "success" => InBand(r.word_count)

\* C3: a synthesized text of fewer than 400 words gets exactly one expand
\* call and status "expanded", never "success".
C3_ShortIsExpanded ==
    (Generated /\ Val(run.generated).synth_word_count < 400) =>
        /\ Val(run.generated).status = "expanded"
        /\ Val(run.generated).status # "success"
        /\ Occurrences(run.calls, "expand") = 1

\* the run started with the input unchanged, Search not clicked and a cached
\* report for the confirmed industry
CachedRerender(r) ==
    r.outcome # "none" /\ r.cached_at_start /\ ~r.input_changed /\ ~r.regenerate

\* C4: a re-render with the input unchanged, Search not clicked and a cached
\* report whose cached_industry is the confirmed industry makes no retriever,
\* rerank, synthesis, trim or other call, leaves cached_report and
\* cached_industry as they are and shows the cached report.
C4_CachedRerenderIsFree ==
    [][(CachedRerender(run') /\ pc' # "idle") =>
          /\ run'.calls = <<>>
          /\ UNCHANGED <<cached_report, cached_industry>>
          /\ pc' \in {"guard", "end"}
          /\ pc' = "end" => /\ run'.shown # None
                            /\ Val(run'.shown).from_cache
                            /\ run'.generated = None]_vars

\* a cached re-render has ended and showed the cached report
C4_Witness ==
    /\ pc = "end"
    /\ CachedRerender(run)
    /\ run.shown # None
    /\ Val(run.shown).from_cache
    /\ cached_report # None

\* the run's input differs from last_input, or Search was clicked with a
\* non-blank input
Invalidating(r) ==
    r.outcome # "none"
    /\ (r.input_changed \/ (r.regenerate /\ strip(r.industry_input) # <<>>))

\* C5: when the input differs from last_input or Search is clicked with a
\* non-blank input, the cache is empty when the pipeline section is reached,
\* and a report shown in that run was generated in that run.
C5_InvalidatedBeforePipeline ==
    /\ (pc = "guard" /\ Invalidating(run)) =>
            cached_report = None /\ cached_industry = None
    /\ (pc = "end" /\ Invalidating(run) /\ run.shown # None) =>
            /\ ~Val(run.shown).from_cache
            /\ run.generated # None
            /\ Occurrences(run.calls, "synth") = 1

\* Search on an unchanged input that had a cached report: a new report was
\* generated and shown
C5_Witness ==
    /\ pc = "end"
    /\ run.regenerate
    /\ ~run.input_changed
    /\ run.cached_at_start
    /\ run.shown # None
    /\ ~Val(run.shown).from_cache

\* C6: on a re-render where a validation result is stored and
\* last_validated_input is the current candidate, the stored result is used
\* and validate_industry is not called.
C6_ValidationReused ==
    [][(/\ pc = "validate"
        /\ has_validation_result
        /\ last_validated_input = grammar_checked_input) =>
          /\ run'.calls = run.calls
          /\ run'.validation = validation_result
          /\ pc' = "decide"
          /\ UNCHANGED <<has_validation_result, validation_result,
                         last_validated_input>>]_vars

\* the stored validation result was used in a run that made no call
C6_Witness ==
    /\ pc = "decide"
    /\ run.calls = <<>>
    /\ run.validation # None
    /\ run.validation = validation_result

\* C7: a run whose input is blank or fails is_meaningful_text makes no LLM
\* and no retriever call, and ends with confirmed_industry = None and no
\* report shown.
C7_RejectedInputMakesNoCall ==
    (/\ run.outcome # "none"
     /\ pc # "idle"
     /\ \/ strip(run.industry_input) = <<>>
        \/ ~is_meaningful_text(run.industry_input)) =>
        /\ run.calls = <<>>
        /\ confirmed_industry = None
        /\ pc \in {"guard", "end"}
        /\ pc = "end" => run.shown = None /\ run.generated = None

\* a run on the input "@@" has ended
C7_Witness ==
    /\ pc = "end"
    /\ run.industry_input = <<"@", "@">>
    /\ run.calls = <<>>
    /\ confirmed_industry = None

\* the text between its first and its last character that is not whitespace
Core(t) ==
    LET ns == {i \in 1..Len(t) : t[i] \notin SpaceChars}
    IN  IF ns = {} THEN <<>>
        ELSE SubSeq(t, CHOOSE i \in ns : \A j \in ns : i <= j,
                       CHOOSE i \in ns : \A j \in ns : i >= j)

NumberOf(t, chars) == Cardinality({i \in 1..Len(t) : t[i] \in chars})

\* C8: is_meaningful_text is false exactly when the stripped text is empty,
\* or shorter than 2 characters, or has fewer than 2 alphabetic characters,
\* or has fewer than 50% of its characters alphanumeric, whitespace or one
\* of - & , .
C8_MeaningfulExactly ==
    pc = "return" =>
        LET c == Core(Val(fn_arg))
            rejected ==
                \/ Len(c) = 0
                \/ Len(c) < 2
                \/ NumberOf(c, AlphaChars) < 2
                \/ 100 * NumberOf(c, AlphaChars \cup DigitChars \cup SpaceChars
                                        \cup {"-", "&", ",", "."}) < 50 * Len(c)
        IN  Val(fn_ret) = ~rejected

\* "ai@@@": two letters, but only 40% of the characters are valid
C8_Witness ==
    /\ pc = "return"
    /\ fn_arg = Some(<<"a", "i", "@", "@", "@">>)
    /\ fn_ret = Some(FALSE)

\* C9: for a document set of fewer than 6 entries rerank_results returns the
\* input sequence unchanged and makes no LLM call.
C9_FewDocsUnchanged ==
    (pc = "return" /\ Len(Val(fn_arg)) < 6) =>
        /\ Val(fn_ret).out.results = Val(fn_arg)
        /\ Val(fn_ret).out.llm_calls = 0
        /\ ~Val(fn_ret).out.halted

\* five documents came back as they were, whatever the reply would have been
C9_Witness ==
    /\ pc = "return"
    /\ Len(Val(fn_arg)) = 5
    /\ Val(fn_ret).reply.kind = "list"
    /\ Val(fn_ret).reply.titles = <<"Z">>
    /\ Val(fn_ret).out.results = Val(fn_arg)

\* the reply names 5 titles, each the title of some input document
FiveValidTitles(docs, reply) ==
    /\ reply.kind = "list"
    /\ Len(reply.titles) = 5
    /\ \A i \in 1..5 : \E j \in 1..Len(docs) : docs[j].title = reply.titles[i]

\* C10: for a document set of at least 6 entries and a reply naming 5 titles
\* of input documents, rerank_results returns exactly 5 documents of the
\* input, the i-th carrying the i-th title of the reply.
C10_FiveTitlesInReplyOrder ==
    (/\ pc = "return"
     /\ Len(Val(fn_arg)) >= 6
     /\ FiveValidTitles(Val(fn_arg), Val(fn_ret).reply)) =>
        LET out == Val(fn_ret).out
        IN  /\ ~out.halted
            /\ out.llm_calls = 1
            /\ Len(out.results) = 5
            /\ \A i \in 1..5 :
                  /\ out.results[i].title = Val(fn_ret).reply.titles[i]
                  /\ out.results[i] \in Range(Val(fn_arg))

\* six documents, a reply of five valid titles that are not in input order
C10_Witness ==
    /\ pc = "return"
    /\ Len(Val(fn_arg)) = 6
    /\ Val(fn_ret).reply.kind = "list"
    /\ Val(fn_ret).reply.titles = <<"B", "A", "B", "B", "A">>
    /\ FiveValidTitles(Val(fn_arg), Val(fn_ret).reply)
    /\ Len(Val(fn_ret).out.results) = 5

\* the titles of the reply that are the title of some input document
ValidTitles(docs, titles) ==
    SelectSeq(titles, LAMBDA t : \E j \in 1..Len(docs) : docs[j].title = t)

\* doc is the first document of docs that carries the title
IsFirstWithTitle(docs, doc, title) ==
    \E k \in 1..Len(docs) :
        /\ docs[k] = doc
        /\ docs[k].title = title
        /\ \A j \in 1..(k - 1) : docs[j].title # title

\* C11: whatever the document set and the parsed reply, rerank_results
\* returns at most 5 documents, each of them a document of the input; after
\* reranking, the i-th returned document is the first input document that
\* carries the i-th of the reply's titles that equal an input title, so a
\* title that equals no input title contributes nothing.
C11_AtMostFiveFirstMatches ==
    (pc = "return" /\ ~Val(fn_ret).out.halted) =>
        LET docs == Val(fn_arg)
            reply == Val(fn_ret).reply
            out == Val(fn_ret).out.results
        IN  /\ Len(out) <= 5
            /\ \A i \in 1..Len(out) : out[i] \in Range(docs)
            /\ (Len(docs) >= 6 /\ reply.kind = "list") =>
                  /\ Len(out) = IF Len(ValidTitles(docs, reply.titles)) < 5
                                THEN Len(ValidTitles(docs, reply.titles)) ELSE 5
                  /\ \A i \in 1..Len(out) :
                        IsFirstWithTitle(docs, out[i],
                                         ValidTitles(docs, reply.titles)[i])

\* six documents with repeated titles and a reply of six valid titles:
\* five documents come back, the sixth match is cut off
C11_Witness ==
    /\ pc = "return"
    /\ Len(Val(fn_arg)) = 6
    /\ \E i, j \in 1..6 : i < j /\ Val(fn_arg)[i].title = Val(fn_arg)[j].title
    /\ Val(fn_ret).reply.kind = "list"
    /\ Val(fn_ret).reply.titles = <<"A", "B", "A", "A", "B", "A">>
    /\ Len(ValidTitles(Val(fn_arg), Val(fn_ret).reply.titles)) = 6
    /\ Len(Val(fn_ret).out.results) = 5

\* C12: in report synthesis the primary model is invoked once; the backup
\* model is invoked once if the primary raised and not at all otherwise; if
\* both raise the run halts and no report is returned; a returned report
\* names the backup model exactly when the primary raised.
C12_BackupOnlyAfterPrimaryFails ==
    pc = "return" =>
        LET a == Val(fn_arg)
            out == Val(fn_ret)
        IN  /\ Occurrences(out.calls, "synth") = 1
            /\ Occurrences(out.calls, "synth_backup")
                   = (IF a.s1.kind = "raise" THEN 1 ELSE 0)
            /\ out.halted <=> (a.s1.kind = "raise" /\ a.s2.kind = "raise")
            /\ out.halted =>
                  /\ out.report_text = <<>>
                  /\ out.status = "none"
                  /\ "synth_failed" \in out.messages
            /\ ~out.halted =>
                  /\ out.status \in {"success", "trimmed"}
                  /\ out.model_used = (IF a.s1.kind = "raise" THEN BackupModel
                                       ELSE PrimaryModel)

\* the primary raised and the backup wrote the report
C12_Witness ==
    /\ pc = "return"
    /\ Val(fn_arg).s1.kind = "raise"
    /\ Val(fn_arg).s2.kind = "text"
    /\ ~Val(fn_ret).halted
    /\ Val(fn_ret).model_used = BackupModel
    /\ SubSeq(Val(fn_ret).calls, 1, 2) = <<"synth", "synth_backup">>

\* C13: when both trim calls raise, the run is not halted: trim_report made
\* one call to each model and gave the report back as it was, and the run
\* completes and caches that report, still over 500 words, showing the word
\* count warning.
C13_TrimFailureKeepsOverlongReport ==
    (pc = "end" /\ "trim_failed" \in run.messages) =>
        /\ run.outcome = "done"
        /\ Occurrences(run.calls, "trim") = 1
        /\ Occurrences(run.calls, "trim_backup") = 1
        /\ cached_report # None
        /\ run.generated # None
        /\ Val(cached_report).word_count = Val(run.generated).synth_word_count
        /\ Val(cached_report).word_count > 500
        /\ run.shown # None
        /\ Val(run.shown).warning

\* the reply stands for an invocation that raised or for a response that is
\* not parseable JSON
Unusable(reply) == reply.kind \in {"raise", "unparseable"}

\* the run was halted by the failure of the call named op, its last call
HaltedBy(op) ==
    /\ pc = "end"
    /\ run.outcome = "stopped"
    /\ run.calls # <<>>
    /\ run.calls[Len(run.calls)] = op
    /\ run.generated = None
    /\ run.shown = None

ClassifierCallsAtMostOnce ==
    /\ \A op \in {"grammar", "validate", "rerank"} : Occurrences(run.calls, op) <= 1
    /\ "grammar_failed" \in run.messages => HaltedBy("grammar")
    /\ "validate_failed" \in run.messages => HaltedBy("validate")
    /\ "rerank_failed" \in run.messages => HaltedBy("rerank")

\* a step that makes one of the three calls and gets an unusable reply ends
\* the run and leaves the session state as it was; the step after the end of
\* a run leaves it too
UnusableReplyHalts ==
    /\ \A reply \in GrammarReplies :
          (Unusable(reply) /\ CheckGrammar(reply)) =>
              (pc' = "end" /\ "grammar_failed" \in run'.messages
               /\ UNCHANGED session)
    /\ \A reply \in ValidationReplies :
          (/\ Unusable(reply)
           /\ NeedsValidation(has_validation_result, last_validated_input,
                              grammar_checked_input)
           /\ ValidateIndustry(reply)) =>
              (pc' = "end" /\ "validate_failed" \in run'.messages
               /\ UNCHANGED session)
    /\ \A reply \in RerankReplies :
          (Unusable(reply) /\ ~TooFewToRerank(run.results) /\ Rerank(reply)) =>
              (pc' = "end" /\ "rerank_failed" \in run'.messages
               /\ UNCHANGED session)
    /\ pc = "end" => (pc' = "idle" /\ UNCHANGED session)

\* C14: grammar correction, industry validation and rerank each invoke the
\* LLM at most once in a run, with no retry and no fallback; when the
\* invocation raises or the response is not parseable JSON the run halts at
\* once: no later step runs and nothing is cached.
C14_ClassifierFailureIsFatal ==
    []ClassifierCallsAtMostOnce /\ [][UnusableReplyHalts]_vars

\* the rerank call failed after grammar check, validation and retrieval
C14_Witness ==
    /\ pc = "end"
    /\ "rerank_failed" \in run.messages
    /\ run.calls = <<"grammar", "validate", "retrieve", "rerank">>
    /\ run.outcome = "stopped"

\* the run was halted by a fatal error of the generation attempt
FatalInGeneration(r) ==
    "rerank_failed" \in r.messages \/ "synth_failed" \in r.messages

\* an industry is confirmed for the input in the text box and no report is
\* cached
ReadyToGenerate ==
    /\ Truthy(confirmed_industry)
    /\ cached_report = None
    /\ cached_industry = None
    /\ ~InputRejected(last_input)

\* the attempt that fails writes neither confirmed_industry nor the cache
FatalStepWritesNothing ==
    (FatalInGeneration(run') /\ ~FatalInGeneration(run)) =>
        UNCHANGED <<confirmed_industry, cached_report, cached_industry>>

\* the steps from the end of a run to the retrieval of the next one, while
\* the input stays the same: no correction, no validation
RetryKeepsConfirmation ==
    /\ pc = "end" => (pc' = "idle" /\ UNCHANGED session)
    /\ (pc = "idle" /\ ReadyToGenerate /\ last_input' = last_input) =>
          /\ pc' = "guard"
          /\ run'.calls = <<>>
          /\ UNCHANGED <<confirmed_industry, cached_report, cached_industry>>
    /\ (pc = "guard" /\ ReadyToGenerate) =>
          /\ pc' = "retrieve"
          /\ run'.calls = run.calls
          /\ UNCHANGED session

\* C15: a generation attempt halted by a fatal error (rerank failure, or
\* synthesis failure on both models) leaves confirmed_industry as it was and
\* writes nothing to cached_report or cached_industry; the next re-render
\* with the same input goes straight to retrieval for the same confirmed
\* industry, without correction or validation.
C15_FatalErrorKeepsConfirmation ==
    /\ []((pc = "end" /\ FatalInGeneration(run)) =>
              (run.outcome = "stopped" /\ ReadyToGenerate
               /\ last_input = run.industry_input))
    /\ [][FatalStepWritesNothing /\ RetryKeepsConfirmation]_vars

\* both models failed on the report prompt in a run that was itself a retry:
\* it made no correction and no validation call
C15_Witness ==
    /\ pc = "end"
    /\ "synth_failed" \in run.messages
    /\ run.calls = <<"retrieve", "synth", "synth_backup">>
    /\ Truthy(confirmed_industry)
    /\ cached_report = None

\* C16: when a correction, validation or rerank call fails, what the user is
\* shown tells the cause: no failure of another cause (invalid key, quota
\* exceeded, other) would have been shown in the same way.
C16_ErrorShownTellsCause ==
    (pc = "end" /\ run.failure # None) =>
        \A e \in FailedCalls :
            ErrorShown(Val(run.failure).shown.error, e) = Val(run.failure).shown
                => e.cause = Val(run.failure).exception.cause

\* the external calls in the order of the data they depend on
CallOrder ==
    <<"grammar", "validate", "retrieve", "rerank", "synth", "synth_backup",
      "trim", "trim_backup">>

Rank(op) == CHOOSE k \in 1..Len(CallOrder) : CallOrder[k] = op

\* The calls of a run, each returned before the next was issued, follow the
\* order of the dependencies, and a call has its predecessor in the same run
\* or its predecessor's result in the session state.
CallsInOrder ==
    /\ \A i, j \in 1..Len(run.calls) :
          i < j => Rank(run.calls[i]) < Rank(run.calls[j])
    /\ "validate" \in Range(run.calls) =>
          (grammar_checked_input # None /\ run.industry_input = last_input)
    /\ "retrieve" \in Range(run.calls) =>
          (Truthy(confirmed_industry) /\ has_validation_result)
    /\ "rerank" \in Range(run.calls) => "retrieve" \in Range(run.calls)
    /\ "synth" \in Range(run.calls) =>
          ("retrieve" \in Range(run.calls) /\ pc = "end")
    /\ "synth_backup" \in Range(run.calls) => "synth" \in Range(run.calls)
    /\ "trim" \in Range(run.calls) => "synth" \in Range(run.calls)
    /\ "trim_backup" \in Range(run.calls) => "trim" \in Range(run.calls)

\* the step issues the call op
Issued(op) == Occurrences(run'.calls, op) > Occurrences(run.calls, op)

\* Where the results that later calls depend on come from: a correction
\* result only from a correction call for the input in the text box, and it
\* does not outlive that input; a validation result only from a validation
\* call for the corrected input; a confirmed industry only from a
\* validation result for the corrected input.
ResultsComeFromCalls ==
    /\ (grammar_checked_input' # grammar_checked_input
        /\ grammar_checked_input' # None) =>
          (Issued("grammar") /\ run.industry_input = last_input
           /\ UNCHANGED last_input)
    /\ last_input' # last_input =>
          (grammar_checked_input' = None /\ confirmed_industry' = None)
    /\ Issued("validate") =>
          (grammar_checked_input # None /\ "grammar_failed" \notin run.messages)
    /\ (last_validated_input' # last_validated_input
        /\ last_validated_input' # None) =>
          (Issued("validate") /\ last_validated_input' = grammar_checked_input
           /\ validation_result' # None)
    /\ (confirmed_industry' # confirmed_industry
        /\ confirmed_industry' # None) =>
          (/\ run.validation = validation_result
           /\ validation_result # None
           /\ last_validated_input = grammar_checked_input
           /\ grammar_checked_input # None)
    /\ Issued("retrieve") => Truthy(confirmed_industry)

\* C17: external calls are strictly ordered: a validation call only after a
\* correction call for that input has returned, the retriever only after a
\* validation call for the corrected input has returned, rerank only after
\* retrieval, synthesis only after rerank, trim only after synthesis; every
\* call has returned before the next is issued.
C17_CallsStrictlyOrdered ==
    []CallsInOrder /\ [][ResultsComeFromCalls]_vars

\* a run that made every call
C17_Witness ==
    /\ pc = "end"
    /\ run.calls = CallOrder

\* C18: once confirmed_industry has a value, no step gives it another value;
\* it is only cleared to None, by the top of a run whose raw input differs
\* from the last one or is blank or not meaningful.  Re-renders with the same
\* input, Search clicks and cached re-renders included, leave it as it is.
C18_ConfirmedIndustryImmutable ==
    [][(confirmed_industry # None /\ confirmed_industry' # confirmed_industry) =>
          /\ confirmed_industry' = None
          /\ pc \in {"idle", "rerun"}
          /\ run'.input_changed \/ InputRejected(run'.industry_input)]_vars

\* a Search click with the same input: the run starts with the industry
\* that was confirmed before and makes no correction or validation call
C18_Witness ==
    /\ pc = "retrieve"
    /\ run.regenerate
    /\ ~run.input_changed
    /\ run.calls = <<>>
    /\ Truthy(confirmed_industry)

\* C19: sanitize_markdown is idempotent: applied to its own result it
\* returns that result.
C19_SanitizeIdempotent ==
    pc = "return" => Val(fn_ret).twice = Val(fn_ret).once

\* a line with a bold word and a stray underscore loses the underscore and
\* keeps the bold word; the second application leaves the result alone
C19_Witness ==
    /\ pc = "return"
    /\ Val(fn_arg) = <<"*", "*", "x", "*", "*", "_">>
    /\ Val(fn_ret).once = <<"*", "*", "x", "*", "*">>
    /\ Val(fn_ret).twice = Val(fn_ret).once

\* C20: for a text of several lines that has the line "(Word Count: 555
\* words)", clean_report_text returns the other lines, in their order and
\* unchanged, joined by newlines: the word count line is gone and no empty
\* line stands in its place.
C20_WordCountLineRemovedOnly ==
    pc = "return" =>
        Val(fn_ret) = JoinLines(SelectSeq(Val(fn_arg),
                                          LAMBDA line : line # CountedLine))

\* the run made the correction and the validation call, every call it made
\* succeeded, and validation answered is_valid = true
AllCallsSucceeded ==
    /\ pc = "end"
    /\ Len(run.calls) >= 2
    /\ run.calls[1] = "grammar"
    /\ run.calls[2] = "validate"
    /\ run.failure = None
    /\ run.outcome # "crashed"
    /\ run.messages \cap {"backup_synth", "synth_failed", "backup_trim",
                          "trim_failed"} = {}
    /\ run.validation # None
    /\ Val(run.validation).is_valid

\* C21: a run for a meaningful input in which every external call succeeds
\* and validation returns is_valid = true goes through correction,
\* validation, retrieval, rerank, synthesis and convergence without further
\* user action and ends with a report in the cache under the confirmed
\* industry, which is the corrected text, with status success, trimmed or
\* expanded.
C21_SuccessfulRunCachesReport ==
    AllCallsSucceeded =>
        /\ run.outcome = "done"
        /\ {"retrieve", "synth"} \subseteq Range(run.calls)
        /\ confirmed_industry # None
        /\ confirmed_industry = grammar_checked_input
        /\ cached_industry = confirmed_industry
        /\ cached_report # None
        /\ Val(cached_report).status \in {"success", "trimmed", "expanded"}

\* the text a model gave to the report prompt, and to the trim prompt (the
\* report itself when both trim calls raise)
SynthesizedText(a) == IF a.s1.kind = "text" THEN a.s1.text ELSE a.s2.text

TrimmedText(a, report_text) ==
    IF a.t1.kind = "text" THEN a.t1.text
    ELSE IF a.t2.kind = "text" THEN a.t2.text ELSE report_text

\* the report of generate_report_with_validation for the answers a, when
\* every text goes through clean_report_text and then sanitize_markdown
CleanedThenSanitized(a, out, synthesized) ==
    /\ out.synth_word_count = WordCount(synthesized)
    /\ out.word_count = WordCount(out.report_text)
    /\ out.status = "success" => out.report_text = synthesized
    /\ out.status = "trimmed" =>
           out.report_text = sanitize_markdown(clean_report_text(
                                 TrimmedText(a, synthesized)))

\* C22: the text of a successful synthesis call, primary or backup, and the
\* text returned by the trim step each go through clean_report_text and then
\* sanitize_markdown, in that order, before the words are counted and before
\* the text is returned, so the returned (and cached) report text is an
\* output of sanitize_markdown applied to an output of clean_report_text.
C22_CleanThenSanitize ==
    (pc = "return" /\ ~Val(fn_ret).halted) =>
        CleanedThenSanitized(Val(fn_arg), Val(fn_ret),
            sanitize_markdown(clean_report_text(SynthesizedText(Val(fn_arg)))))

\* a synthesized text with a backtick and a word count line, where the order
\* of the two steps shows
C22_Witness ==
    /\ pc = "return"
    /\ Val(fn_arg).s1.kind = "text"
    /\ Backtick \in Range(Val(fn_arg).s1.text)
    /\ ~Val(fn_ret).halted
    /\ Val(fn_ret).status = "success"
    /\ Val(fn_ret).report_text = <<"x499", " ">>
    /\ Val(fn_ret).word_count = 499

\* line i of the text `out` that sanitize_markdown returns for the text `inp`
SanitizedLineOk(inp, out, i) ==
    /\ IsHeadingLine(inp[i]) => out[i] = inp[i]
    /\ ~IsHeadingLine(out[i]) =>
           /\ Backtick \notin Range(out[i])
           /\ UnpairedCount(out[i], "*") % 2 = 0
           /\ UnpairedCount(out[i], "_") % 2 = 0

\* C23: sanitize_markdown returns every heading line (its stripped form
\* starts with '#') unchanged, and every line of its output that is not a
\* heading has no backtick and an even count of unpaired single markers
\* (count('*') - 2 * count('**'), and likewise for '_').
C23_SanitizedLines ==
    pc = "return" =>
        LET inp == SplitLines(Val(fn_arg))
            out == SplitLines(Val(fn_ret).once)
        IN  /\ Len(out) = Len(inp)
            /\ \A i \in 1..Len(inp) : SanitizedLineOk(inp, out, i)

\* a heading with a stray marker and a backtick is kept; the line under it
\* loses its stray underscore
C23_Witness ==
    /\ pc = "return"
    /\ Val(fn_arg) = <<"#", "*", Backtick, NL, "_">>
    /\ Val(fn_ret).once = <<"#", "*", Backtick, NL>>

\* what a correction call that succeeds leaves in grammar_checked_input
CorrectionStored ==
    \A reply \in GrammarReplies :
        (~Unusable(reply) /\ CheckGrammar(reply)) =>
            /\ run.industry_input = last_input
            /\ reply.has_issues =>
                   grammar_checked_input' = reply.corrected_text
            /\ ~reply.has_issues =>
                   grammar_checked_input' = Some(last_input)

\* no correction call while grammar_checked_input is set; a run that starts
\* with it set and the input unchanged keeps it and does not go to STEP 1A
CorrectionNotRepeated ==
    /\ Issued("grammar") => grammar_checked_input = None
    /\ (pc \in {"idle", "rerun"} /\ grammar_checked_input # None
        /\ last_input' = last_input) =>
           (pc' # "grammar" /\ UNCHANGED grammar_checked_input)

\* C24: after a correction call that succeeds, grammar_checked_input is the
\* corrected_text of the response if has_issues is true and the raw input
\* as typed if it is false; the call is not made again on later runs while
\* grammar_checked_input is set and the input is unchanged.
C24_CorrectionResultStoredOnce ==
    [][CorrectionStored /\ CorrectionNotRepeated]_vars

\* a later run for the same input starts at STEP 1B with the corrected text
\* of an earlier run and has made no correction call
C24_Witness ==
    /\ pc = "validate"
    /\ ~run.input_changed
    /\ run.calls = <<>>
    /\ grammar_checked_input = Some(<<"a", "a">>)
    /\ last_input = <<"a", "i">>

\* the stored Validation Result is the one for the grammar-checked candidate
\* of the input in the text box
ValidationStoredForCandidate ==
    /\ has_validation_result
    /\ validation_result # None
    /\ grammar_checked_input # None
    /\ last_validated_input = grammar_checked_input

\* (a) the candidate itself, found valid; (b) one of the suggestions stored
\* for the candidate, chosen with the radio and confirmed
ConfirmedFromValidation ==
    \/ /\ Val(validation_result).is_valid
       /\ confirmed_industry = grammar_checked_input
    \/ /\ ~Val(validation_result).is_valid
       /\ Val(confirmed_industry) \in Range(Val(validation_result).suggestions)
       /\ confirmed_industry = selected_suggestion

\* confirmed_industry gets a value only in STEP 1B, from the candidate or
\* from the Confirm Selection click
ConfirmedOnlyInStepOne ==
    (confirmed_industry' # None /\ confirmed_industry' # confirmed_industry) =>
        /\ pc = "decide"
        /\ Val(run.validation).is_valid \/ run.click = "confirm"

\* C25: a confirmed_industry that is not None is either the grammar-checked
\* candidate of the current input for which the stored Validation Result has
\* is_valid = true, or a suggestion of the stored Validation Result for that
\* candidate that was confirmed with Confirm Selection; retrieval and report
\* generation run for no other string.
C25_ConfirmedIndustryOrigin ==
    /\ [](confirmed_industry # None =>
             (ValidationStoredForCandidate /\ ConfirmedFromValidation))
    /\ [](pc \in {"retrieve", "rerank", "generate"} => Truthy(confirmed_industry))
    /\ [][ConfirmedOnlyInStepOne]_vars

\* a report is about to be generated for a confirmed suggestion
C25_Witness ==
    /\ pc = "generate"
    /\ ~Val(validation_result).is_valid
    /\ confirmed_industry = Some(<<"i", "i">>)
    /\ confirmed_industry # grammar_checked_input

\* C26: at the end of a run, after any sequence of input changes, Search
\* clicks, suggestion confirmations, Try Different Input clicks and fatal
\* errors, a cached report comes with a confirmed industry, and it is cached
\* under that industry: cached_report # None implies confirmed_industry #
\* None and cached_industry = confirmed_industry.
C26_CacheBelongsToConfirmed ==
    (pc \in {"end", "idle"} /\ cached_report # None) =>
        /\ confirmed_industry # None
        /\ cached_industry = confirmed_industry

\* a later run for the same input ends with the report that was cached for
\* a confirmed suggestion
C26_Witness ==
    /\ pc = "end"
    /\ run.cached_at_start
    /\ ~run.regenerate
    /\ run.calls = <<>>
    /\ cached_report # None
    /\ confirmed_industry = Some(<<"i", "i">>)
    /\ cached_industry = confirmed_industry

====
